---- MODULE Spec2Model ----
(***************************************************************************)
(* A model of the search extension (src/src/search.ts): the SearchQuery    *)
(* value, the two query types (StringQuery, RegExpQuery) built on the      *)
(* literal and the regular-expression cursor, the searchState field and    *)
(* the search commands.                                                    *)
(*                                                                         *)
(* Text is a sequence of one-character strings.  A document is a record    *)
(* [len, at, fill]: position i (0-based) holds at[i] when i is in the      *)
(* domain of at and the character fill otherwise, so that a document of    *)
(* several chunk widths (FindPrev.ChunkSize = 10000) is a small value.     *)
(***************************************************************************)
EXTENDS Integers, Sequences, FiniteSets, TLC

VARIABLES doc,       \* EditorState.doc
          sel,       \* EditorState.selection: [ranges, main]
          readOnly,  \* EditorState.readOnly
          field,     \* the searchState field: NoField or [query, panel]
          searchPanel, \* the SearchPanel instance of the view: NoPanel or [query]
          call       \* the last operation run, its arguments and its outcome

vars == <<doc, sel, readOnly, field, searchPanel, call>>

-----------------------------------------------------------------------------
(* Bounds of the model.                                                    *)

MaxDocLen == 3       \* length of the explicitly enumerated documents
MaxLimit == 2        \* largest limit handed to a direct matchAll call
MaxGapCases == 2     \* number of chunk widths the long documents span
MaxEditLen == 2      \* length of the enumerated documents of the editor
MaxGrownLen == 4     \* length a replacement may grow a document to

-----------------------------------------------------------------------------
(* Characters.                                                             *)

BS == "\\"
LF == "LF"
CR == "CR"
TAB == "TAB"
NoChar == ""
Filler == "-"

WordChars == {"a", "A"}
DocChars == {"a", "A", " "}

\* String.prototype.toLowerCase on one character.
toLowerCase(ch) == IF ch = "A" THEN "a" ELSE ch

\* EditorState.charCategorizer: Word, Space or Other.
categorizer(ch) ==
  IF ch \in WordChars THEN "Word"
  ELSE IF ch \in {" ", LF, CR, TAB, NoChar} THEN "Space"
  ELSE "Other"

Min(a, b) == IF a < b THEN a ELSE b
Max(a, b) == IF a > b THEN a ELSE b
SetMin(S) == CHOOSE x \in S : \A y \in S : x <= y
SetMax(S) == CHOOSE x \in S : \A y \in S : x >= y

-----------------------------------------------------------------------------
(* The Text source.                                                        *)

charAt(d, i) == IF i \in DOMAIN d.at THEN d.at[i] ELSE d.fill

\* Text.sliceString(from, to)
sliceString(d, from, to) ==
  [k \in 1..(Min(to, d.len) - from) |-> charAt(d, from + k - 1)]

\* The document holding exactly the text s.
TextOf(s) == [len |-> Len(s), at |-> [i \in 0..(Len(s) - 1) |-> s[i + 1]], fill |-> Filler]

\* Positions at which a non-filler character stands.
Marked(d) == IF d.fill = Filler THEN {i \in DOMAIN d.at : d.at[i] # Filler} ELSE 0..(d.len - 1)

-----------------------------------------------------------------------------
(* SearchQuery.                                                            *)

\* SearchQuery.unquote
RECURSIVE unquoteFrom(_, _)
unquoteFrom(text, i) ==
  IF i > Len(text) THEN <<>>
  ELSE IF text[i] = BS /\ i < Len(text) /\ text[i + 1] \in {"n", "r", "t", BS}
    THEN <<CASE text[i + 1] = "n" -> LF
             [] text[i + 1] = "r" -> CR
             [] text[i + 1] = "t" -> TAB
             [] OTHER -> BS>> \o unquoteFrom(text, i + 2)
  ELSE <<text[i]>> \o unquoteFrom(text, i + 1)

unquote(q, text) == IF q.literal THEN text ELSE unquoteFrom(text, 1)

\* validRegExp: the pattern compiles.  The patterns of the model are
\* characters, the postfix quantifiers + and *, and parentheses.
Quantifiers == {"+", "*"}

RECURSIVE parenDepthOk(_, _, _)
parenDepthOk(s, i, depth) ==
  IF i > Len(s) THEN depth = 0
  ELSE IF s[i] = "(" THEN parenDepthOk(s, i + 1, depth + 1)
  ELSE IF s[i] = ")" THEN depth > 0 /\ parenDepthOk(s, i + 1, depth - 1)
  ELSE parenDepthOk(s, i + 1, depth)

validRegExp(s) ==
  /\ parenDepthOk(s, 1, 0)
  /\ \A i \in 1..Len(s) :
       s[i] \in Quantifiers => i > 1 /\ s[i - 1] \notin Quantifiers \cup {"("}

\* new SearchQuery(config): the stored fields; valid and unquoted are derived.
SearchQuery(search, caseSensitive, literal, regexp, wholeWord, replace) ==
  [search |-> search, caseSensitive |-> caseSensitive, literal |-> literal,
   regexp |-> regexp, wholeWord |-> wholeWord, replace |-> replace]

valid(q) == q.search # <<>> /\ (~q.regexp \/ validRegExp(q.search))

\* SearchQuery.eq
eq(q, other) ==
  /\ q.search = other.search
  /\ q.replace = other.replace
  /\ q.caseSensitive = other.caseSensitive
  /\ q.regexp = other.regexp
  /\ q.wholeWord = other.wholeWord

unquoted(q) == unquote(q, q.search)

-----------------------------------------------------------------------------
(* Match results.  Null stands for null / a cursor that is done.           *)

Null == [from |-> -1, to |-> -1]

Range(from, to) == [from |-> from, to |-> to]

\* matchAll's null, told apart from every list of matches.
NullList == <<Null>>

-----------------------------------------------------------------------------
(* The whole-word tests.  The buffer handed to a test is always a slice of *)
(* the document, so it is given by its bounds: buf = doc[bufPos, bufEnd).  *)

\* The character at index i of the buffer, NoChar outside it.
bufChar(d, bufPos, bufEnd, i) ==
  IF i >= 0 /\ bufPos + i < bufEnd THEN charAt(d, bufPos + i) ELSE NoChar

charBefore(d, bufPos, bufEnd, index) == bufChar(d, bufPos, bufEnd, index - 1)

charAfter(d, bufPos, bufEnd, index) == bufChar(d, bufPos, bufEnd, index)

stringWordTest(d, from, to, bufPos, bufEnd) ==
  LET reslice == bufPos > from \/ bufEnd < to
      bp == IF reslice THEN Max(0, from - 2) ELSE bufPos
      be == IF reslice THEN Min(d.len, to + 2) ELSE bufEnd
  IN /\ \/ categorizer(charBefore(d, bp, be, from - bp)) # "Word"
        \/ categorizer(charAfter(d, bp, be, from - bp)) # "Word"
     /\ \/ categorizer(charAfter(d, bp, be, to - bp)) # "Word"
        \/ categorizer(charBefore(d, bp, be, to - bp)) # "Word"

\* match.input is the line the cursor matched against, doc[0, inputEnd);
\* match.index = from, match[0].length = to - from.
regexpWordTest(d, from, to, inputEnd) ==
  \/ to - from = 0
  \/ /\ \/ categorizer(charBefore(d, 0, inputEnd, from)) # "Word"
        \/ categorizer(charAfter(d, 0, inputEnd, from)) # "Word"
     /\ \/ categorizer(charAfter(d, 0, inputEnd, to)) # "Word"
        \/ categorizer(charBefore(d, 0, inputEnd, to)) # "Word"

-----------------------------------------------------------------------------
(* SearchCursor: the literal cursor over [from, to).                       *)

\* new SearchCursor(text, query, from, to, normalize, test)
SearchCursor(d, query, from, to, normalize, test) ==
  [d |-> d, query |-> query, from |-> from, to |-> Min(to, d.len),
   normalize |-> normalize, test |-> test,
   started |-> FALSE, done |-> FALSE, value |-> Null]

SC_norm(c, ch) == IF c.normalize THEN toLowerCase(ch) ELSE ch

\* An occurrence of the (normalized) query at p, inside the range, that the
\* boundary test accepts.  The test sees the cursor's buffer, the text of
\* the range.
SC_matchAt(c, p) ==
  /\ Len(c.query) > 0
  /\ p >= c.from
  /\ p + Len(c.query) <= c.to
  /\ \A k \in 1..Len(c.query) :
       SC_norm(c, charAt(c.d, p + k - 1)) = SC_norm(c, c.query[k])
  /\ c.test => stringWordTest(c.d, p, p + Len(c.query), c.from, c.to)

\* The first occurrence at or after pos.
SC_scan(c, pos) ==
  LET S == {p \in Marked(c.d) : p >= pos /\ SC_matchAt(c, p)}
  IN IF c.done \/ S = {}
       THEN [c EXCEPT !.done = TRUE]
       ELSE [c EXCEPT !.started = TRUE,
                      !.value = Range(SetMin(S), SetMin(S) + Len(c.query))]

\* SearchCursor.next: resumes past the end of the match found.
SC_next(c) == SC_scan(c, IF c.started THEN c.value.to ELSE c.from)

\* SearchCursor.nextOverlapping: resumes one unit past its start.
SC_nextOverlapping(c) == SC_scan(c, IF c.started THEN c.value.from + 1 ELSE c.from)

-----------------------------------------------------------------------------
(* RegExpCursor: the regular-expression cursor over [from, to).            *)

\* The compiled pattern: a sequence of atoms [ch, q], q one of "1", "+", "*".
\* Parentheses group without a quantifier of their own and do not change
\* what is matched.
RECURSIVE atomsFrom(_, _)
atomsFrom(s, i) ==
  IF i > Len(s) THEN <<>>
  ELSE IF s[i] \in {"(", ")"} THEN atomsFrom(s, i + 1)
  ELSE IF i < Len(s) /\ s[i + 1] \in Quantifiers
    THEN <<[ch |-> s[i], q |-> s[i + 1]]>> \o atomsFrom(s, i + 2)
  ELSE <<[ch |-> s[i], q |-> "1"]>> \o atomsFrom(s, i + 1)

\* new RegExpCursor(text, query, {ignoreCase, test}, from, to); the
\* construction fails (error) when the pattern does not compile.
RegExpCursor(d, query, ignoreCase, test, from, to) ==
  [d |-> d, re |-> atomsFrom(query, 1), error |-> ~validRegExp(query),
   ignoreCase |-> ignoreCase, test |-> test, from |-> from, to |-> Min(to, d.len),
   matchPos |-> from, done |-> FALSE, value |-> Null]

RX_eq(c, j, ch) ==
  /\ j < c.to
  /\ IF c.ignoreCase THEN toLowerCase(charAt(c.d, j)) = toLowerCase(ch)
                     ELSE charAt(c.d, j) = ch

RECURSIVE RX_runEnd(_, _, _)
RX_runEnd(c, j, ch) == IF RX_eq(c, j, ch) THEN RX_runEnd(c, j + 1, ch) ELSE j

\* Where a (greedy, backtracking) match of atoms k.. starting at i ends in
\* the line cut at c.to, or -1.
RECURSIVE RX_matchEnd(_, _, _)
RX_matchEnd(c, k, i) ==
  IF k > Len(c.re) THEN i
  ELSE LET a == c.re[k]
       IN IF a.q = "1"
            THEN IF RX_eq(c, i, a.ch) THEN RX_matchEnd(c, k + 1, i + 1) ELSE -1
            ELSE LET least == IF a.q = "+" THEN 1 ELSE 0
                     run == RX_runEnd(c, i, a.ch) - i
                     ok == {n \in least..run : RX_matchEnd(c, k + 1, i + n) # -1}
                 IN IF ok = {} THEN -1 ELSE RX_matchEnd(c, k + 1, i + SetMax(ok))

RX_canMatchEmpty(c) == \A k \in 1..Len(c.re) : c.re[k].q = "*"

\* RegExpCursor.next: the leftmost match at or after matchPos; a match the
\* test rejects is skipped and the scan goes on just past it.
RECURSIVE RX_next(_)
RX_next(c) ==
  LET cand == IF RX_canMatchEmpty(c) THEN c.matchPos..c.to
              ELSE {p \in Marked(c.d) : p >= c.matchPos /\ p < c.to}
      S == {p \in cand : RX_matchEnd(c, 1, p) # -1}
  IN IF c.done \/ S = {} THEN [c EXCEPT !.done = TRUE]
     ELSE LET from == SetMin(S)
              to == RX_matchEnd(c, 1, from)
              on == [c EXCEPT !.matchPos = to + (IF from = to THEN 1 ELSE 0)]
          IN IF (from < to \/ from > c.value.to) /\ (c.test => regexpWordTest(c.d, from, to, c.to))
               THEN [on EXCEPT !.value = [from |-> from, to |-> to,
                                          match |-> <<sliceString(c.d, from, to)>>]]
               ELSE RX_next(on)

-----------------------------------------------------------------------------
(* The query types.  An operation yields [ret, cursors, threw]: its        *)
(* result, the number of cursors it constructed, and whether it ended in   *)
(* an exception (a RegExpCursor whose pattern does not compile).           *)

ChunkSize == 10000

HighlightMargin == 250

Outcome(ret, cursors) == [ret |-> ret, cursors |-> cursors, threw |-> FALSE]

Thrown(cursors) == [ret |-> Null, cursors |-> cursors, threw |-> TRUE]

stringCursor(q, d, from, to) ==
  SearchCursor(d, unquoted(q), from, to, ~q.caseSensitive, q.wholeWord)

regexpCursor(q, d, from, to) ==
  RegExpCursor(d, q.search, ~q.caseSensitive, q.wholeWord, from, to)

\* while (!cursor.nextOverlapping().done) range = cursor.value
RECURSIVE SC_lastOverlapping(_, _)
SC_lastOverlapping(c, range) ==
  LET n == SC_nextOverlapping(c)
  IN IF n.done THEN range ELSE SC_lastOverlapping(n, n.value)

\* while (!cursor.next().done) range = cursor.value
RECURSIVE RX_last(_, _)
RX_last(c, range) ==
  LET n == RX_next(c)
  IN IF n.done THEN range ELSE RX_last(n, n.value)

\* while (!cursor.next().done) { if (ranges.length >= limit) return null; ... }
RECURSIVE SC_collect(_, _, _)
SC_collect(c, ranges, limit) ==
  LET n == SC_next(c)
  IN IF n.done THEN ranges
     ELSE IF Len(ranges) >= limit THEN NullList
     ELSE SC_collect(n, Append(ranges, n.value), limit)

RECURSIVE RX_collect(_, _, _)
RX_collect(c, ranges, limit) ==
  LET n == RX_next(c)
  IN IF n.done THEN ranges
     ELSE IF Len(ranges) >= limit THEN NullList
     ELSE RX_collect(n, Append(ranges, n.value), limit)

\* while (!cursor.next().done) add(cursor.value.from, cursor.value.to)
RECURSIVE SC_addAll(_, _)
SC_addAll(c, added) ==
  LET n == SC_next(c)
  IN IF n.done THEN added
     ELSE SC_addAll(n, Append(added, Range(n.value.from, n.value.to)))

RECURSIVE RX_addAll(_, _)
RX_addAll(c, added) ==
  LET n == RX_next(c)
  IN IF n.done THEN added
     ELSE RX_addAll(n, Append(added, Range(n.value.from, n.value.to)))

StringQuery_nextMatch(q, d, curFrom, curTo) ==
  LET first == SC_nextOverlapping(stringCursor(q, d, curTo, d.len))
      second == SC_nextOverlapping(stringCursor(q, d, 0, curFrom))
  IN IF ~first.done THEN Outcome(first.value, 1)
     ELSE Outcome(IF second.done THEN Null ELSE second.value, 2)

\* The backward search with chunks that are not extended by the pattern length.
RECURSIVE StringQuery_prevMatchInRange_noExtend(_, _, _, _, _, _)
StringQuery_prevMatchInRange_noExtend(q, d, from, to, pos, cursors) ==
  LET start == Max(from, pos - ChunkSize)
      range == SC_lastOverlapping(stringCursor(q, d, start, pos), Null)
  IN IF range # Null THEN Outcome(range, cursors + 1)
     ELSE IF start = from THEN Outcome(Null, cursors + 1)
     ELSE StringQuery_prevMatchInRange_noExtend(q, d, from, to, pos - ChunkSize, cursors + 1)

RECURSIVE StringQuery_prevMatchInRange(_, _, _, _, _, _)
StringQuery_prevMatchInRange(q, d, from, to, pos, cursors) ==
  LET start == Max(from, pos - ChunkSize - Len(unquoted(q)))
      range == SC_lastOverlapping(stringCursor(q, d, start, pos), Null)
  IN IF range # Null THEN Outcome(range, cursors + 1)
     ELSE IF start = from THEN Outcome(Null, cursors + 1)
     ELSE StringQuery_prevMatchInRange(q, d, from, to, pos - ChunkSize, cursors + 1)

StringQuery_prevMatch(q, d, curFrom, curTo) ==
  LET first == StringQuery_prevMatchInRange(q, d, 0, curFrom, curFrom, 0)
      second == StringQuery_prevMatchInRange(q, d, curTo, d.len, d.len, 0)
  IN IF first.ret # Null THEN first
     ELSE Outcome(second.ret, first.cursors + second.cursors)

StringQuery_getReplacement(q, result) == unquote(q, q.replace)

\* matchAll giving up one match too late.
StringQuery_matchAll_oneMore(q, d, limit) ==
  Outcome(SC_collect(stringCursor(q, d, 0, d.len), <<>>, limit + 1), 1)

StringQuery_matchAll(q, d, limit) ==
  Outcome(SC_collect(stringCursor(q, d, 0, d.len), <<>>, limit), 1)

StringQuery_highlight(q, d, from, to) ==
  Outcome(SC_addAll(stringCursor(q, d, Max(0, from - Len(unquoted(q))),
                                 Min(to + Len(unquoted(q)), d.len)), <<>>), 1)

RegExpQuery_nextMatch(q, d, curFrom, curTo) ==
  LET first == RX_next(regexpCursor(q, d, curTo, d.len))
      second == RX_next(regexpCursor(q, d, 0, curFrom))
  IN IF first.error THEN Thrown(1)
     ELSE IF ~first.done THEN Outcome(first.value, 1)
     ELSE Outcome(IF second.done THEN Null ELSE second.value, 2)

\* The backward search that returns whatever a scan found last.
RECURSIVE RegExpQuery_prevMatchInRange_anyMatch(_, _, _, _, _)
RegExpQuery_prevMatchInRange_anyMatch(q, d, from, to, size) ==
  LET start == Max(from, to - size * ChunkSize)
      cursor == regexpCursor(q, d, start, to)
      range == RX_last(cursor, Null)
  IN IF cursor.error THEN Thrown(size)
     ELSE IF range # Null THEN Outcome(range, size)
     ELSE IF start = from THEN Outcome(Null, size)
     ELSE RegExpQuery_prevMatchInRange_anyMatch(q, d, from, to, size + 1)

RECURSIVE RegExpQuery_prevMatchInRange(_, _, _, _, _)
RegExpQuery_prevMatchInRange(q, d, from, to, size) ==
  LET start == Max(from, to - size * ChunkSize)
      cursor == regexpCursor(q, d, start, to)
      range == RX_last(cursor, Null)
  IN IF cursor.error THEN Thrown(size)
     ELSE IF range # Null /\ (start = from \/ range.from > start + 10)
       THEN Outcome(range, size)
     ELSE IF start = from THEN Outcome(Null, size)
     ELSE RegExpQuery_prevMatchInRange(q, d, from, to, size + 1)

RegExpQuery_prevMatch(q, d, curFrom, curTo) ==
  LET first == RegExpQuery_prevMatchInRange(q, d, 0, curFrom, 1)
      second == RegExpQuery_prevMatchInRange(q, d, curTo, d.len, 1)
  IN IF first.threw \/ first.ret # Null THEN first
     ELSE Outcome(second.ret, first.cursors + second.cursors)

\* The callback of replace(/\$([$&\d+])/g, ...): i is the character after $.
Digits == {"0", "1", "2", "3", "4", "5", "6", "7", "8", "9"}

digitValue(ch) ==
  CASE ch = "0" -> 0 [] ch = "1" -> 1 [] ch = "2" -> 2 [] ch = "3" -> 3 [] ch = "4" -> 4
    [] ch = "5" -> 5 [] ch = "6" -> 6 [] ch = "7" -> 7 [] ch = "8" -> 8 [] OTHER -> 9

replacer(i, match) ==
  IF i = "$" THEN <<"$">>
  ELSE IF i = "&" THEN match[1]
  ELSE IF i # "0" /\ i \in Digits /\ digitValue(i) < Len(match) THEN match[digitValue(i) + 1]
  ELSE <<"$", i>>

\* String.prototype.replace with the global pattern: left to right, a $
\* followed by one of $, &, a digit or + is replaced, the rest copied.
RECURSIVE replaceFrom(_, _, _)
replaceFrom(text, k, match) ==
  IF k > Len(text) THEN <<>>
  ELSE IF text[k] = "$" /\ k < Len(text) /\ text[k + 1] \in {"$", "&", "+"} \cup Digits
    THEN replacer(text[k + 1], match) \o replaceFrom(text, k + 2, match)
  ELSE <<text[k]>> \o replaceFrom(text, k + 1, match)

RegExpQuery_getReplacement(q, result) ==
  unquote(q, replaceFrom(q.replace, 1, result.match))

getReplacement(q, result) ==
  IF q.regexp THEN RegExpQuery_getReplacement(q, result)
  ELSE StringQuery_getReplacement(q, result)

RegExpQuery_matchAll(q, d, limit) ==
  LET cursor == regexpCursor(q, d, 0, d.len)
  IN IF cursor.error THEN Thrown(1)
     ELSE Outcome(RX_collect(cursor, <<>>, limit), 1)

RegExpQuery_highlight(q, d, from, to) ==
  LET cursor == regexpCursor(q, d, Max(0, from - HighlightMargin),
                             Min(to + HighlightMargin, d.len))
  IN IF cursor.error THEN Thrown(1)
     ELSE Outcome(RX_addAll(cursor, <<>>), 1)

\* SearchQuery.create() and the dispatch on the query type.
nextMatch(q, d, curFrom, curTo) ==
  IF q.regexp THEN RegExpQuery_nextMatch(q, d, curFrom, curTo)
  ELSE StringQuery_nextMatch(q, d, curFrom, curTo)

prevMatch(q, d, curFrom, curTo) ==
  IF q.regexp THEN RegExpQuery_prevMatch(q, d, curFrom, curTo)
  ELSE StringQuery_prevMatch(q, d, curFrom, curTo)

matchAll(q, d, limit) ==
  IF q.regexp THEN RegExpQuery_matchAll(q, d, limit)
  ELSE StringQuery_matchAll(q, d, limit)

highlight(q, d, from, to) ==
  IF q.regexp THEN RegExpQuery_highlight(q, d, from, to)
  ELSE StringQuery_highlight(q, d, from, to)

-----------------------------------------------------------------------------
(* The inputs.                                                             *)

\* Every text of at most n characters.
Texts(n) == UNION {[1..k -> DocChars] : k \in 0..n}

ShortDocs == {TextOf(s) : s \in Texts(MaxDocLen)}

\* pre, a run of gap filler characters, post.
LongDoc(pre, gap, post) ==
  [len |-> Len(pre) + gap + Len(post),
   at |-> [i \in (0..(Len(pre) - 1)) \cup ((Len(pre) + gap)..(Len(pre) + gap + Len(post) - 1)) |->
             IF i < Len(pre) THEN pre[i + 1] ELSE post[i - Len(pre) - gap + 1]],
   fill |-> Filler]

LongDocs ==
  {LongDoc(pre, k * ChunkSize + j, post) :
     pre \in {<<"a", "a">>, <<"a", "a", "a">>}, post \in {<<>>, <<"a">>},
     k \in 1..MaxGapCases, j \in {-1, 0, 1}}

\* Two texts in which a word stands alone beside a longer word, and a run
\* of four letters.
WordDocs ==
  {TextOf(<<"a", " ", "a", "a">>), TextOf(<<"a", "a", " ", "a">>),
   TextOf(<<"a", "a", "a", "a">>)}

Docs == ShortDocs \cup WordDocs \cup LongDocs

\* The positions handed to the operations: every position of a short
\* document; in a long one the ends of its marked stretches and the document end.
Positions(d) ==
  IF d \in ShortDocs \cup WordDocs THEN 0..d.len
  ELSE {0, d.len} \cup {p + 1 : p \in Marked(d)}

Searches ==
  {<<>>, <<"a">>, <<"a", "a">>, <<"a", "A">>, <<"a", "+">>, <<"a", "*">>, <<"(">>}

Queries ==
  {SearchQuery(s, cs, FALSE, re, ww, <<>>) :
     s \in Searches, cs \in BOOLEAN, re \in BOOLEAN, ww \in BOOLEAN}

\* A long document is not scanned position by position: no pattern of the
\* model matches the filler, and a pattern that matches the empty string
\* (which would match at every filler position) is paired with short
\* documents only.
Scannable(q, d) ==
  d \notin LongDocs \/ ~q.regexp \/ ~validRegExp(q.search)
    \/ \E k \in 1..Len(atomsFrom(q.search, 1)) : atomsFrom(q.search, 1)[k].q # "*"

-----------------------------------------------------------------------------
(* The state.                                                              *)

NoField == [none |-> TRUE]

SearchState(q, panel) == [query |-> q, panel |-> panel]

Cursor0 == [ranges |-> <<Range(0, 0)>>, main |-> 1]

\* The effects of a transaction as the field sees them: setSearchQuery with
\* a query, togglePanel with a flag, or an effect of some other type.
SetQueryEffect(q) == [is |-> "setSearchQuery", query |-> q, open |-> FALSE]

TogglePanelEffect(open) == [is |-> "togglePanel", query |-> NoField, open |-> open]

OtherEffect == [is |-> "other", query |-> NoField, open |-> FALSE]

\* A field that keeps the first setSearchQuery effect of a transaction.
RECURSIVE update_firstWins(_, _)
update_firstWins(value, effects) ==
  IF effects = <<>> THEN value
  ELSE LET effect == effects[Len(effects)]
           rest == update_firstWins(value, SubSeq(effects, 1, Len(effects) - 1))
       IN IF effect.is = "setSearchQuery" /\ \A i \in 1..(Len(effects) - 1) : effects[i].is # "setSearchQuery"
            THEN SearchState(effect.query, rest.panel)
          ELSE IF effect.is = "togglePanel" THEN SearchState(rest.query, effect.open)
          ELSE rest

\* searchState.update: the effects are applied in order.
RECURSIVE update(_, _)
update(value, effects) ==
  IF effects = <<>> THEN value
  ELSE update(IF Head(effects).is = "setSearchQuery"
                THEN SearchState(Head(effects).query, value.panel)
              ELSE IF Head(effects).is = "togglePanel"
                THEN SearchState(value.query, Head(effects).open)
              ELSE value,
              Tail(effects))

\* The panel instance: NoPanel while no panel is shown.
NoPanel == [none |-> TRUE]

\* SearchPanel.constructor: the panel takes the query of the state it is
\* created in (its inputs show that query's fields).
SearchPanel(f) == [query |-> f.query]

\* A panel that looks at the first effect of a transaction only.
panelUpdate_firstOnly(p, effects) ==
  IF effects # <<>> /\ Head(effects).is = "setSearchQuery" /\ ~eq(Head(effects).query, p.query)
    THEN [query |-> Head(effects).query]
    ELSE p

\* SearchPanel.update and setQuery: every setSearchQuery effect that is not
\* eq to the panel's query becomes the panel's query.
RECURSIVE panelUpdate(_, _)
panelUpdate(p, effects) ==
  IF effects = <<>> THEN p
  ELSE panelUpdate(IF Head(effects).is = "setSearchQuery" /\ ~eq(Head(effects).query, p.query)
                     THEN [query |-> Head(effects).query]
                     ELSE p,
                   Tail(effects))

\* showPanel.from(searchState): the panel exists while the field's panel
\* is set; it is constructed in the state after the transaction that
\* opens it, and updated with every later transaction.
showPanel(p, f, effects) ==
  IF f = NoField \/ ~f.panel THEN NoPanel
  ELSE IF p = NoPanel THEN SearchPanel(f)
  ELSE panelUpdate(p, effects)


NoCall == [op |-> "none", q |-> NoField, a |-> NoField, b |-> NoField, out |-> Outcome(Null, 0)]

Idle == call.op = "none"

\* The record of a run: the operation, the query it ran on, two arguments
\* and the outcome.
Called(op, q, a, b, out) == [op |-> op, q |-> q, a |-> a, b |-> b, out |-> out]

\* A direct use of the four query operations on the current query, as a
\* caller holding the query type may make it.  One operation runs at a
\* time (the code is synchronous): call holds it until Return.
CallNextMatch ==
  \E curFrom \in Positions(doc), curTo \in Positions(doc) :
    /\ Idle
    /\ curFrom <= curTo
    /\ call' = Called("nextMatch", field.query, curFrom, curTo, nextMatch(field.query, doc, curFrom, curTo))
    /\ UNCHANGED <<doc, sel, readOnly, field, searchPanel>>

CallPrevMatch ==
  \E curFrom \in Positions(doc), curTo \in Positions(doc) :
    /\ Idle
    /\ curFrom <= curTo
    /\ call' = Called("prevMatch", field.query, curFrom, curTo, prevMatch(field.query, doc, curFrom, curTo))
    /\ UNCHANGED <<doc, sel, readOnly, field, searchPanel>>

CallMatchAll ==
  \E limit \in 0..MaxLimit :
    /\ Idle
    /\ call' = Called("matchAll", field.query, limit, 0, matchAll(field.query, doc, limit))
    /\ UNCHANGED <<doc, sel, readOnly, field, searchPanel>>

CallHighlight ==
  \E from \in Positions(doc), to \in Positions(doc) :
    /\ Idle
    /\ from <= to
    /\ call' = Called("highlight", field.query, from, to, highlight(field.query, doc, from, to))
    /\ UNCHANGED <<doc, sel, readOnly, field, searchPanel>>

\* The operation has returned and its caller has taken the result.
Return ==
  /\ ~Idle
  /\ call' = NoCall
  /\ UNCHANGED <<doc, sel, readOnly, field, searchPanel>>

InitQuery ==
  /\ doc \in Docs
  /\ sel = Cursor0
  /\ readOnly = FALSE
  /\ \E q \in Queries : Scannable(q, doc) /\ field = SearchState(q, FALSE)
  /\ searchPanel = showPanel(NoPanel, field, <<>>)
  /\ call = NoCall

NextQuery == CallNextMatch \/ CallPrevMatch \/ CallMatchAll \/ CallHighlight \/ Return

SpecQuery == InitQuery /\ [][NextQuery]_vars

-----------------------------------------------------------------------------
(* Comparing two queries.                                                  *)

EqSearches == {<<"a">>, <<BS, "n">>}

EqQueries ==
  {SearchQuery(s, cs, lit, re, ww, r) :
     s \in EqSearches, cs \in BOOLEAN, lit \in BOOLEAN, re \in BOOLEAN, ww \in BOOLEAN,
     r \in {<<>>, <<"A">>}}

CallEq ==
  \E other \in EqQueries :
    /\ Idle
    /\ call' = Called("eq", field.query, other, 0, Outcome(eq(field.query, other), 0))
    /\ UNCHANGED <<doc, sel, readOnly, field, searchPanel>>

InitEq ==
  /\ doc = TextOf(<<>>)
  /\ sel = Cursor0
  /\ readOnly = FALSE
  /\ \E q \in EqQueries : field = SearchState(q, FALSE)
  /\ searchPanel = showPanel(NoPanel, field, <<>>)
  /\ call = NoCall

NextEq == CallEq \/ Return

SpecEq == InitEq /\ [][NextEq]_vars

-----------------------------------------------------------------------------
(* Computing the replacement of a regexp match.                            *)

\* Every template of at most two characters, and four longer ones.
TemplateChars == {"$", "&", "1", "9", "0", "+", "-"}

Templates ==
  UNION {[1..k -> TemplateChars] : k \in 0..2}
    \cup {<<"$", "2", "$", "1", "-", "$", "&">>, <<"$", "$", "&">>,
          <<"$", "$", "$", "&">>, <<BS, "n", "$", "&">>}

\* result.match of a RegExpResult: the whole match, then the groups.
MatchArrays ==
  {<<<<"a", "b">>, <<"a">>, <<"b">>>>, <<<<"a">>>>, <<<<BS, "n">>>>, <<<<BS, BS>>, <<BS>>>>}

ReplQueries ==
  {SearchQuery(<<"a">>, FALSE, lit, TRUE, FALSE, r) : lit \in BOOLEAN, r \in Templates}

CallGetReplacement ==
  \E match \in MatchArrays :
    /\ Idle
    /\ call' = Called("getReplacement", field.query, match, 0,
                      Outcome(getReplacement(field.query, [match |-> match]), 0))
    /\ UNCHANGED <<doc, sel, readOnly, field, searchPanel>>

InitRepl ==
  /\ doc = TextOf(<<>>)
  /\ sel = Cursor0
  /\ readOnly = FALSE
  /\ \E q \in ReplQueries : field = SearchState(q, FALSE)
  /\ searchPanel = showPanel(NoPanel, field, <<>>)
  /\ call = NoCall

NextRepl == CallGetReplacement \/ Return

SpecRepl == InitRepl /\ [][NextRepl]_vars

-----------------------------------------------------------------------------
(* The whole-word test of a literal query, called as a cursor calls it.    *)

\* test(from, to, buffer, bufferPos) on a candidate [from, to), the buffer
\* being the slice [bufPos, bufEnd) of the document.
CallStringWordTest ==
  \E from \in 0..doc.len, to \in 0..doc.len, bufPos \in 0..doc.len, bufEnd \in 0..doc.len :
    /\ Idle
    /\ from < to
    /\ bufPos <= bufEnd
    /\ call' = Called("stringWordTest", NoField, Range(from, to), Range(bufPos, bufEnd),
                      Outcome(stringWordTest(doc, from, to, bufPos, bufEnd), 0))
    /\ UNCHANGED <<doc, sel, readOnly, field, searchPanel>>

InitWord ==
  /\ doc \in ShortDocs \cup WordDocs
  /\ sel = Cursor0
  /\ readOnly = FALSE
  /\ field = NoField
  /\ searchPanel = showPanel(NoPanel, field, <<>>)
  /\ call = NoCall

NextWord == CallStringWordTest \/ Return

SpecWord == InitWord /\ [][NextWord]_vars

-----------------------------------------------------------------------------
(* The editor: the commands, the panel and the highlighter acting on the   *)
(* view's state.                                                           *)

\* The text of a short document as a sequence, and state.sliceDoc.
SeqOf(d) == [i \in 1..d.len |-> charAt(d, i - 1)]

sliceDoc(d, from, to) == sliceString(d, from, to)

single(from, to) == [ranges |-> <<Range(from, to)>>, main |-> 1]

mainRange(s) == s.ranges[s.main]

\* selText.replace(/\n/g, "\\n")
RECURSIVE escapeNewlines(_)
escapeNewlines(text) ==
  IF text = <<>> THEN <<>>
  ELSE (IF Head(text) = LF THEN <<BS, "n">> ELSE <<Head(text)>>) \o escapeNewlines(Tail(text))

\* The configuration facet is left at its defaults: every flag false.
defaultQuery(d, s, fallback) ==
  LET selText == IF mainRange(s).from = mainRange(s).to \/ mainRange(s).to > mainRange(s).from + 100
                   THEN <<>>
                   ELSE sliceDoc(d, mainRange(s).from, mainRange(s).to)
  IN IF fallback # NoField /\ selText = <<>> THEN fallback
     ELSE SearchQuery(IF fallback # NoField /\ fallback.literal THEN selText
                                                               ELSE escapeNewlines(selText),
                      IF fallback # NoField THEN fallback.caseSensitive ELSE FALSE,
                      IF fallback # NoField THEN fallback.literal ELSE FALSE,
                      IF fallback # NoField THEN fallback.regexp ELSE FALSE,
                      IF fallback # NoField THEN fallback.wholeWord ELSE FALSE,
                      <<>>)

\* searchState.create
create(d, s) == SearchState(defaultQuery(d, s, NoField), FALSE)

\* An openSearchPanel that sets the query of a closed panel's field and
\* does not toggle the panel.
openSearchPanel_noToggle(d, s, f, focused) ==
  IF f # NoField /\ f.panel
    THEN IF ~focused /\ valid(defaultQuery(d, s, f.query))
           THEN SearchState(defaultQuery(d, s, f.query), f.panel)
           ELSE f
  ELSE IF f # NoField THEN SearchState(defaultQuery(d, s, f.query), f.panel)
  ELSE SearchState(create(d, s).query, TRUE)

\* openSearchPanel: the field after the command.  focused tells whether the
\* panel's search input is the active element.
openSearchPanel(d, s, f, focused) ==
  IF f # NoField /\ f.panel
    THEN IF ~focused /\ valid(defaultQuery(d, s, f.query))
           THEN SearchState(defaultQuery(d, s, f.query), f.panel)
           ELSE f
  ELSE IF f # NoField THEN SearchState(defaultQuery(d, s, f.query), TRUE)
  ELSE SearchState(create(d, s).query, TRUE)

\* The effects openSearchPanel dispatches.
openEffects(d, s, f, focused) ==
  IF f # NoField /\ f.panel
    THEN IF ~focused /\ valid(defaultQuery(d, s, f.query))
           THEN <<SetQueryEffect(defaultQuery(d, s, f.query))>>
           ELSE <<>>
  ELSE IF f # NoField
    THEN <<TogglePanelEffect(TRUE), SetQueryEffect(defaultQuery(d, s, f.query))>>
  ELSE <<TogglePanelEffect(TRUE)>>

\* What a command leaves in call: its result, the cursors it constructed,
\* whether it threw; a and b hold the document and the selection it ran on.
Ran(op, out) == Called(op, IF field = NoField THEN NoField ELSE field.query, doc, sel, out)

\* searchCommand: f runs only on an initialized field with a valid query;
\* otherwise the command is openSearchPanel.
Gate == field # NoField /\ valid(field.query)

Ungated(op) ==
  \E focused \in BOOLEAN :
    /\ ~Gate
    /\ field' = openSearchPanel(doc, sel, field, focused)
    /\ searchPanel' = showPanel(searchPanel, field', openEffects(doc, sel, field, focused))
    /\ call' = Ran(op, Outcome(TRUE, 0))
    /\ UNCHANGED <<doc, sel, readOnly>>

FindNext ==
  /\ Idle
  /\ \/ Ungated("findNext")
     \/ /\ Gate
        /\ \E next \in {nextMatch(field.query, doc, mainRange(sel).to, mainRange(sel).to)} :
              /\ sel' = IF next.ret = Null THEN sel ELSE single(next.ret.from, next.ret.to)
              /\ call' = Ran("findNext", Outcome(next.ret # Null, next.cursors))
        /\ UNCHANGED <<doc, readOnly, field, searchPanel>>

FindPrevious ==
  /\ Idle
  /\ \/ Ungated("findPrevious")
     \/ /\ Gate
        /\ \E prev \in {prevMatch(field.query, doc, mainRange(sel).from, mainRange(sel).from)} :
              /\ sel' = IF prev.ret = Null THEN sel ELSE single(prev.ret.from, prev.ret.to)
              /\ call' = Ran("findPrevious", Outcome(prev.ret # Null, prev.cursors))
        /\ UNCHANGED <<doc, readOnly, field, searchPanel>>

\* EditorSelection.create(ranges.map(...)), the first range the main one.
rangesOf(matches) == [i \in 1..Len(matches) |-> Range(matches[i].from, matches[i].to)]

SelectLimit == 1000

SelectMatches ==
  /\ Idle
  /\ \/ Ungated("selectMatches")
     \/ /\ Gate
        /\ \E all \in {matchAll(field.query, doc, SelectLimit)} :
              /\ sel' = IF all.ret = NullList \/ all.ret = <<>> THEN sel
                        ELSE [ranges |-> rangesOf(all.ret), main |-> 1]
              /\ call' = Ran("selectMatches",
                             Outcome(all.ret # NullList /\ all.ret # <<>>, all.cursors))
        /\ UNCHANGED <<doc, readOnly, field, searchPanel>>

OpenSearchPanel ==
  \E focused \in BOOLEAN :
    /\ Idle
    /\ field' = openSearchPanel(doc, sel, field, focused)
    /\ searchPanel' = showPanel(searchPanel, field', openEffects(doc, sel, field, focused))
    /\ call' = Ran("openSearchPanel", Outcome(TRUE, 0))
    /\ UNCHANGED <<doc, sel, readOnly>>

CloseSearchPanel ==
  /\ Idle
  /\ field' = IF field = NoField \/ ~field.panel THEN field ELSE SearchState(field.query, FALSE)
  /\ searchPanel' = showPanel(searchPanel, field', <<>>)
  /\ call' = Ran("closeSearchPanel", Outcome(field # NoField /\ field.panel, 0))
  /\ UNCHANGED <<doc, sel, readOnly>>

\* The document after a transaction's changes (sorted, not overlapping).
RECURSIVE applyFrom(_, _, _, _)
applyFrom(text, changes, k, pos) ==
  IF k > Len(changes) THEN SubSeq(text, pos + 1, Len(text))
  ELSE SubSeq(text, pos + 1, changes[k].from) \o changes[k].insert
         \o applyFrom(text, changes, k + 1, changes[k].to)

applyChanges(d, changes) == TextOf(applyFrom(SeqOf(d), changes, 1, 0))

\* ChangeDesc.mapPos: where a position of the old document lies in the new.
RECURSIVE mapFrom(_, _, _, _, _, _)
mapFrom(changes, k, posA, posB, pos, assoc) ==
  IF k > Len(changes) \/ changes[k].from > pos THEN posB + (pos - posA)
  ELSE LET c == changes[k]
           atB == posB + (c.from - posA)
       IN IF c.to > pos \/ (c.to = pos /\ assoc < 0 /\ c.to = c.from)
            THEN IF pos = c.from \/ assoc < 0 THEN atB ELSE atB + Len(c.insert)
            ELSE mapFrom(changes, k + 1, c.to, atB + Len(c.insert), pos, assoc)

mapPos(changes, pos, assoc) == mapFrom(changes, 1, 0, 0, pos, assoc)

\* SelectionRange.map
mapRange(changes, r) ==
  IF r.from = r.to THEN Range(mapPos(changes, r.from, -1), mapPos(changes, r.from, -1))
  ELSE Range(Min(mapPos(changes, r.from, 1), mapPos(changes, r.to, -1)),
             Max(mapPos(changes, r.from, 1), mapPos(changes, r.to, -1)))

\* EditorSelection.create on ranges in document order: a range that
\* overlaps the one before it (an empty one that touches it) is merged
\* into it, and the main index follows.
RECURSIVE normalized(_, _, _, _)
normalized(ranges, k, acc, main) ==
  IF k > Len(ranges) THEN [ranges |-> acc, main |-> main]
  ELSE LET r == ranges[k]
           prev == acc[Len(acc)]
       IN IF acc # <<>> /\ (IF r.from = r.to THEN r.from <= prev.to ELSE r.from < prev.to)
            THEN normalized(ranges, k + 1,
                            [acc EXCEPT ![Len(acc)] = Range(prev.from, Max(prev.to, r.to))],
                            IF Len(acc) + 1 <= main THEN main - 1 ELSE main)
            ELSE normalized(ranges, k + 1, Append(acc, r), main)

\* EditorSelection.map
mapSelection(changes, s) ==
  normalized([i \in 1..Len(s.ranges) |-> mapRange(changes, s.ranges[i])], 1, <<>>, s.main)

\* checkSelection: a transaction whose selection points outside the new
\* document throws.
selectionFits(s, d) == \A i \in 1..Len(s.ranges) : s.ranges[i].to <= d.len

Change(from, to, insert) == [from |-> from, to |-> to, insert |-> insert]

\* The transaction of replaceNext: next is the match to select (Null if
\* none), whose position is corrected by off when it lies after the change.
replaceOff(changes, replacement, next) ==
  IF changes = <<>> \/ changes[1].from >= next.to THEN 0
  ELSE next.to - next.from - Len(replacement)

replaceSelection(s, changes, replacement, next) ==
  IF next # Null
    THEN single(next.from - replaceOff(changes, replacement, next),
                next.to - replaceOff(changes, replacement, next))
    ELSE mapSelection(changes, s)

dispatched(d, s, newDoc, selection, cursors) ==
  IF ~selectionFits(selection, newDoc) THEN [doc |-> d, sel |-> s, out |-> Thrown(cursors)]
  ELSE [doc |-> newDoc, sel |-> selection, out |-> Outcome(TRUE, cursors)]

\* The selected range is the match: it is replaced, and the match after
\* it is looked up in the old document.
replaceHit(d, s, first, replacement, second) ==
  dispatched(d, s,
             applyChanges(d, <<Change(first.ret.from, first.ret.to, replacement)>>),
             replaceSelection(s, <<Change(first.ret.from, first.ret.to, replacement)>>,
                              replacement, second.ret),
             first.cursors + second.cursors)

replaceFound(q, d, s, first) ==
  IF first.ret = Null THEN [doc |-> d, sel |-> s, out |-> Outcome(FALSE, first.cursors)]
  ELSE IF first.ret.from = mainRange(s).from /\ first.ret.to = mainRange(s).to
    THEN replaceHit(d, s, first, getReplacement(q, first.ret),
                    nextMatch(q, d, first.ret.from, first.ret.to))
  ELSE dispatched(d, s, d, single(first.ret.from, first.ret.to), first.cursors)

\* The body of replaceNext: the new document and selection, the result,
\* the cursors constructed and whether the dispatch threw.
replaceNext(q, d, s, ro) ==
  IF ro THEN [doc |-> d, sel |-> s, out |-> Outcome(FALSE, 0)]
  ELSE replaceFound(q, d, s, nextMatch(q, d, mainRange(s).from, mainRange(s).from))

ReplaceNext ==
  /\ Idle
  /\ \/ Ungated("replaceNext")
     \/ /\ Gate
        /\ \E r \in {replaceNext(field.query, doc, sel, readOnly)} :
              /\ r.doc.len <= MaxGrownLen
              /\ doc' = r.doc
              /\ sel' = r.sel
              /\ call' = Ran("replaceNext", r.out)
        /\ UNCHANGED <<readOnly, field, searchPanel>>

ReplaceLimit == 1000000000

changesOf(q, matches) ==
  [i \in 1..Len(matches) |-> Change(matches[i].from, matches[i].to, getReplacement(q, matches[i]))]

replaceAllWith(d, s, changes, cursors) ==
  IF changes = <<>> THEN [doc |-> d, sel |-> s, out |-> Outcome(FALSE, cursors)]
  ELSE [doc |-> applyChanges(d, changes), sel |-> mapSelection(changes, s),
        out |-> Outcome(TRUE, cursors)]

replaceAllOf(q, d, s, all) ==
  IF all.ret = NullList THEN [doc |-> d, sel |-> s, out |-> Thrown(all.cursors)]
  ELSE replaceAllWith(d, s, changesOf(q, all.ret), all.cursors)

\* The body of replaceAll.
replaceAll(q, d, s, ro) ==
  IF ro THEN [doc |-> d, sel |-> s, out |-> Outcome(FALSE, 0)]
  ELSE replaceAllOf(q, d, s, matchAll(q, d, ReplaceLimit))

ReplaceAll ==
  /\ Idle
  /\ \/ Ungated("replaceAll")
     \/ /\ Gate
        /\ \E r \in {replaceAll(field.query, doc, sel, readOnly)} :
              /\ r.doc.len <= MaxGrownLen
              /\ doc' = r.doc
              /\ sel' = r.sel
              /\ call' = Ran("replaceAll", r.out)
        /\ UNCHANGED <<readOnly, field, searchPanel>>

SelectionMatchesLimit == 1000

\* The loop of selectSelectionMatches over cur.next().
RECURSIVE selectionMatchesFrom(_, _, _, _)
selectionMatchesFrom(cur, from, ranges, main) ==
  LET n == SC_next(cur)
  IN IF n.done THEN [ranges |-> ranges, main |-> main, aborted |-> FALSE]
     ELSE IF Len(ranges) > SelectionMatchesLimit THEN [ranges |-> ranges, main |-> main, aborted |-> TRUE]
     ELSE selectionMatchesFrom(n, from, Append(ranges, Range(n.value.from, n.value.to)),
                               IF n.value.from = from THEN Len(ranges) ELSE main)

\* main counts from 0 in the loop; a selection's main index counts from 1.
selectSelectionMatches(d, s) ==
  LET found == selectionMatchesFrom(
                 SearchCursor(d, sliceDoc(d, mainRange(s).from, mainRange(s).to), 0, d.len, FALSE, FALSE),
                 mainRange(s).from, <<>>, 0)
  IN IF Len(s.ranges) > 1 \/ mainRange(s).from = mainRange(s).to
       THEN [sel |-> s, out |-> Outcome(FALSE, 0)]
     ELSE IF found.aborted THEN [sel |-> s, out |-> Outcome(FALSE, 1)]
     ELSE IF found.ranges = <<>> THEN [sel |-> s, out |-> Thrown(1)]
     ELSE [sel |-> [ranges |-> found.ranges, main |-> found.main + 1], out |-> Outcome(TRUE, 1)]

SelectSelectionMatches ==
  /\ Idle
  /\ \E r \in {selectSelectionMatches(doc, sel)} :
       /\ sel' = r.sel
       /\ call' = Ran("selectSelectionMatches", r.out)
  /\ UNCHANGED <<doc, readOnly, field, searchPanel>>

\* The editor's inputs.
EdExtraDocs == {TextOf(<<"a", "a", "a">>), TextOf(<<"a", " ", "a", "a">>)}

EdDocs == {TextOf(s) : s \in Texts(MaxEditLen)} \cup EdExtraDocs

\* Literal queries with and without whole-word matching, and regexp
\* queries, one of them with a pattern that does not compile.
EdReplacements == {<<>>, <<"a", "a">>}

EdQueries ==
  {SearchQuery(s, FALSE, FALSE, FALSE, ww, r) :
     s \in {<<>>, <<"a">>, <<"a", "a">>}, ww \in BOOLEAN, r \in EdReplacements}
  \cup {SearchQuery(s, FALSE, FALSE, TRUE, FALSE, r) :
          s \in {<<"a", "+">>, <<"(">>}, r \in EdReplacements}

\* The effect setSearchQuery, dispatched by the panel or by any caller: it
\* only has an effect on an initialized field.
SetSearchQuery ==
  \E q \in EdQueries :
    /\ Idle
    /\ field' = IF field = NoField THEN field ELSE SearchState(q, field.panel)
    /\ searchPanel' = showPanel(searchPanel, field', <<SetQueryEffect(q)>>)
    /\ call' = Called("setSearchQuery", q, doc, sel, Outcome(TRUE, 0))
    /\ UNCHANGED <<doc, sel, readOnly>>

\* searchHighlighter.highlight over one visible range [from, to); the
\* plugin is part of the search extensions, installed with the field.
searchHighlighter(f, d, from, to) ==
  IF ~f.panel \/ ~valid(f.query) THEN Outcome(<<>>, 0)
  ELSE highlight(f.query, d, from, to)

Highlight ==
  \E from \in 0..doc.len, to \in 0..doc.len :
    /\ Idle
    /\ field # NoField
    /\ from <= to
    /\ call' = Ran("searchHighlighter", searchHighlighter(field, doc, from, to))
    /\ UNCHANGED <<doc, sel, readOnly, field, searchPanel>>

\* searchPanelOpen
searchPanelOpen(f) == f # NoField /\ f.panel

\* getSearchQuery
getSearchQuery(d, s, f) == IF f # NoField THEN f.query ELSE defaultQuery(d, s, NoField)

\* SearchQuery.getCursor(state, from, to): the cursor it returns.
getCursor(q, d, from, to) ==
  IF q.regexp THEN regexpCursor(q, d, from, to) ELSE stringCursor(q, d, from, to)

\* getCursor called on the current query, over the whole document.  A
\* regexp cursor that cannot compile its pattern throws on construction.
GetCursor ==
  /\ Idle
  /\ \E q \in {getSearchQuery(doc, sel, field)} :
       call' = Called("getCursor", q, doc, sel,
                      IF q.regexp /\ getCursor(q, doc, 0, doc.len).error THEN Thrown(1)
                      ELSE Outcome(TRUE, 1))
  /\ UNCHANGED <<doc, sel, readOnly, field, searchPanel>>

\* An editor over a document, with one selection range, created with or
\* without the search extension.
Init ==
  /\ doc \in EdDocs
  /\ \E from \in 0..doc.len, to \in 0..doc.len : from <= to /\ sel = single(from, to)
  /\ readOnly \in BOOLEAN
  /\ field \in {NoField, create(doc, sel)}
  /\ searchPanel = showPanel(NoPanel, field, <<>>)
  /\ call = NoCall

Next ==
  \/ FindNext
  \/ FindPrevious
  \/ SelectMatches
  \/ SelectSelectionMatches
  \/ ReplaceNext
  \/ ReplaceAll
  \/ OpenSearchPanel
  \/ CloseSearchPanel
  \/ SetSearchQuery
  \/ Highlight
  \/ GetCursor
  \/ Return

Spec == Init /\ [][Next]_vars

-----------------------------------------------------------------------------
(* Searching backwards over documents of several chunks.                   *)

MaxChunks == 4

\* Two letters, a stretch of filler of about k chunks, and nothing or one
\* more letter: the match before the stretch is found by the scan that
\* reaches back over it.
BackDocs ==
  {LongDoc(<<"a", "a">>, k * ChunkSize + j, post) :
     post \in {<<>>, <<"a">>}, k \in 1..MaxChunks, j \in {-1, 0, 1}}

BackQueries ==
  {SearchQuery(<<"a">>, FALSE, FALSE, re, FALSE, <<>>) : re \in BOOLEAN}
  \cup {SearchQuery(<<"a", "a">>, FALSE, FALSE, FALSE, FALSE, <<>>),
        SearchQuery(<<"a", "+">>, FALSE, FALSE, TRUE, FALSE, <<>>)}

InitBack ==
  /\ doc \in BackDocs
  /\ sel = Cursor0
  /\ readOnly = FALSE
  /\ \E q \in BackQueries : field = SearchState(q, FALSE)
  /\ searchPanel = showPanel(NoPanel, field, <<>>)
  /\ call = NoCall

NextBack == CallPrevMatch \/ Return

SpecBack == InitBack /\ [][NextBack]_vars

-----------------------------------------------------------------------------
(* findNext invoked again and again on a fixed document and query.         *)

MaxCycleLen == 2

CycleDocs == {TextOf(s) : s \in Texts(MaxCycleLen)}

\* Literal queries, one of them for whole words, and regexps, one of which
\* matches the empty string.
CycleQueries ==
  {SearchQuery(<<"a">>, FALSE, FALSE, FALSE, ww, <<>>) : ww \in BOOLEAN}
  \cup {SearchQuery(s, FALSE, FALSE, TRUE, FALSE, <<>>) : s \in {<<"a", "+">>, <<"a", "*">>}}

\* The document has at least one match of the query.
InitCycle ==
  /\ doc \in CycleDocs
  /\ \E from \in 0..doc.len, to \in 0..doc.len : from <= to /\ sel = single(from, to)
  /\ readOnly = FALSE
  /\ \E q \in CycleQueries : field = SearchState(q, TRUE)
  /\ matchAll(field.query, doc, doc.len + 1).ret # <<>>
  /\ searchPanel = showPanel(NoPanel, field, <<>>)
  /\ call = NoCall

NextCycle == FindNext \/ Return

\* The command is invoked again whenever it has returned.
SpecCycle ==
  /\ InitCycle
  /\ [][NextCycle]_vars
  /\ WF_<<sel, call.op>>(FindNext)
  /\ WF_<<sel, call.op>>(Return)

-----------------------------------------------------------------------------
(* The two panel commands alone, on any query.                             *)

NextPanel == OpenSearchPanel \/ CloseSearchPanel \/ SetSearchQuery \/ Return

SpecPanel == Init /\ [][NextPanel]_vars

-----------------------------------------------------------------------------
(* The search state field under transactions that carry several effects.   *)

MaxEffects == 2

\* Queries that differ from each other in one field or in several.
StateQueries ==
  {SearchQuery(<<"a">>, FALSE, FALSE, FALSE, FALSE, <<>>),
   SearchQuery(<<"a">>, FALSE, TRUE, FALSE, FALSE, <<>>),
   SearchQuery(<<"a", "+">>, TRUE, FALSE, TRUE, FALSE, <<"A">>)}

Effects ==
  {SetQueryEffect(q) : q \in StateQueries}
  \cup {TogglePanelEffect(open) : open \in BOOLEAN}
  \cup {OtherEffect}

Transactions == UNION {[1..n -> Effects] : n \in 0..MaxEffects}

\* One transaction: a holds the field before it, b its effects.  A state
\* without the field has nothing to update.
Dispatch ==
  \E effects \in Transactions :
    /\ Idle
    /\ field' = IF field = NoField THEN field ELSE update(field, effects)
    /\ searchPanel' = showPanel(searchPanel, field', effects)
    /\ call' = Called("dispatch", NoField, field, effects, Outcome(TRUE, 0))
    /\ UNCHANGED <<doc, sel, readOnly>>

InitState ==
  /\ doc = TextOf(<<>>)
  /\ sel = Cursor0
  /\ readOnly = FALSE
  /\ field \in {NoField} \cup {SearchState(q, panel) : q \in StateQueries, panel \in BOOLEAN}
  /\ searchPanel = showPanel(NoPanel, field, <<>>)
  /\ call = NoCall

NextState == Dispatch \/ Return

SpecState == InitState /\ [][NextState]_vars

-----------------------------------------------------------------------------
(* The panel: commits of its inputs among transactions from elsewhere.     *)

\* What a user can leave in the panel's two text inputs.
PanelSearches == {<<"a">>, <<"a", "+">>}

PanelReplaces == {<<>>, <<"A">>}

\* SearchPanel.commit, run when an input changes: the query is built from
\* the five inputs (there is none for literal) and dispatched if it is
\* not eq to the panel's query.  a holds the panel before the commit, b
\* the effects dispatched.
Commit ==
  \E search \in PanelSearches, caseSensitive \in BOOLEAN, regexp \in BOOLEAN,
     wholeWord \in BOOLEAN, replace \in PanelReplaces :
    \E query \in {SearchQuery(search, caseSensitive, FALSE, regexp, wholeWord, replace)} :
      /\ Idle
      /\ searchPanel # NoPanel
      /\ IF ~eq(query, searchPanel.query)
           THEN /\ field' = update(field, <<SetQueryEffect(query)>>)
                /\ searchPanel' = showPanel([query |-> query], field', <<SetQueryEffect(query)>>)
                /\ call' = Called("commit", query, searchPanel, <<SetQueryEffect(query)>>,
                                  Outcome(TRUE, 0))
           ELSE /\ UNCHANGED <<field, searchPanel>>
                /\ call' = Called("commit", query, searchPanel, <<>>, Outcome(FALSE, 0))
      /\ UNCHANGED <<doc, sel, readOnly>>

NextCommit == Commit \/ Dispatch \/ Return

SpecCommit == InitState /\ [][NextCommit]_vars

-----------------------------------------------------------------------------
(* What a scan of a region finds, stated on the document.                  *)

\* The text at [p, p + Len(pat)) is the pattern, up to case unless the
\* query is case-sensitive.
Occurs(q, d, p) ==
  /\ p >= 0
  /\ p + Len(unquoted(q)) <= d.len
  /\ \A k \in 1..Len(unquoted(q)) :
       IF q.caseSensitive THEN charAt(d, p + k - 1) = unquoted(q)[k]
       ELSE toLowerCase(charAt(d, p + k - 1)) = toLowerCase(unquoted(q)[k])

\* The matches of a literal query that a scan of [lo, hi) can report: the
\* occurrences inside the region that pass the whole-word test there.
LiteralMatches(q, d, lo, hi) ==
  {p \in Marked(d) : /\ p >= lo
                     /\ p + Len(unquoted(q)) <= hi
                     /\ Occurs(q, d, p)
                     /\ q.wholeWord => stringWordTest(d, p, p + Len(unquoted(q)), lo, Min(hi, d.len))}

\* The first and the last match a scan of [lo, hi) finds, Null if none.
FirstIn(q, d, lo, hi) ==
  IF q.regexp
    THEN LET n == RX_next(regexpCursor(q, d, lo, hi)) IN IF n.done THEN Null ELSE n.value
    ELSE LET S == LiteralMatches(q, d, lo, hi)
         IN IF S = {} THEN Null ELSE Range(SetMin(S), SetMin(S) + Len(unquoted(q)))

LastIn(q, d, lo, hi) ==
  IF q.regexp
    THEN RX_last(regexpCursor(q, d, lo, hi), Null)
    ELSE LET S == LiteralMatches(q, d, lo, hi)
         IN IF S = {} THEN Null ELSE Range(SetMax(S), SetMax(S) + Len(unquoted(q)))

\* The matches of the forward scan of the whole document (matchAll with a
\* limit no document of the model exceeds).
AllMatches(q, d) == matchAll(q, d, d.len + 1).ret

-----------------------------------------------------------------------------
(* C1: nextMatch(state, curFrom, curTo) returns the first match of the     *)
(* scan of [curTo, docLength); if that scan finds none, the first match of *)
(* the scan of [0, curFrom); null only when both scans find nothing.  In   *)
(* particular nextMatch(N, N), on a document whose only match lies before  *)
(* N, returns that match.  (A regular expression that matches the empty    *)
(* string matches at N itself: its documents are not of that kind.)        *)
MatchesEmpty(q, d) == q.regexp /\ RX_canMatchEmpty(regexpCursor(q, d, 0, 0))

C1_NextMatchWraps ==
  (call.op = "nextMatch" /\ valid(call.q)) =>
    /\ ~call.out.threw
    /\ call.out.ret =
         IF FirstIn(call.q, doc, call.b, doc.len) # Null
           THEN FirstIn(call.q, doc, call.b, doc.len)
           ELSE FirstIn(call.q, doc, 0, call.a)
    /\ (/\ call.a = call.b
        /\ ~MatchesEmpty(call.q, doc)
        /\ Len(AllMatches(call.q, doc)) = 1
        /\ AllMatches(call.q, doc)[1].to <= call.a) =>
         /\ call.out.ret.from = AllMatches(call.q, doc)[1].from
         /\ call.out.ret.to = AllMatches(call.q, doc)[1].to


-----------------------------------------------------------------------------
(* C2 as stated: with a match of matchAll lying before P, prevMatch(P, P)  *)
(* returns the one with the largest from among the matches of matchAll     *)
(* that lie before P.                                                      *)
MatchesBefore(q, d, P) ==
  {AllMatches(q, d)[i] : i \in {j \in 1..Len(AllMatches(q, d)) : AllMatches(q, d)[j].to <= P}}

OccurrencesBefore(q, d, P) ==
  {p \in Marked(d) : p + Len(unquoted(q)) <= P /\ Occurs(q, d, p)}

-----------------------------------------------------------------------------
(* C3: prevMatch(state, curFrom, curTo) tries [0, curFrom) first and       *)
(* [curTo, docLength) second: its result is the last match of [0, curFrom) *)
(* if that region has one, otherwise the last match of [curTo, docLength), *)
(* and null only when neither region has a match.                          *)
C3_PrevMatchRegionOrder ==
  (call.op = "prevMatch" /\ valid(call.q)) =>
    /\ ~call.out.threw
    /\ call.out.ret =
         IF LastIn(call.q, doc, 0, call.a) # Null
           THEN LastIn(call.q, doc, 0, call.a)
           ELSE LastIn(call.q, doc, call.b, doc.len)
    /\ (call.out.ret # Null /\ call.out.ret.from >= call.b /\ call.b > call.a) =>
         LastIn(call.q, doc, 0, call.a) = Null


-----------------------------------------------------------------------------
(* C4: matchAll(state, limit) returns null exactly when the forward scan   *)
(* of the whole document yields more than limit matches; otherwise it      *)
(* returns every match of the scan, in ascending order: never a truncated  *)
(* list.                                                                   *)
Ascending(ranges) ==
  \A i \in 1..(Len(ranges) - 1) : ranges[i].from < ranges[i + 1].from

C4_MatchAllNullIffOverLimit ==
  (call.op = "matchAll" /\ valid(call.q)) =>
    /\ ~call.out.threw
    /\ (call.out.ret = NullList) <=> (Len(AllMatches(call.q, doc)) > call.a)
    /\ call.out.ret # NullList =>
         /\ call.out.ret = AllMatches(call.q, doc)
         /\ Len(call.out.ret) <= call.a
         /\ Ascending(call.out.ret)
         /\ ~call.q.regexp =>
              \A i \in 1..Len(call.out.ret) :
                call.out.ret[i] =
                  FirstIn(call.q, doc, IF i = 1 THEN 0 ELSE call.out.ret[i - 1].to, doc.len)
         /\ ~call.q.regexp =>
              FirstIn(call.q, doc, IF call.out.ret = <<>> THEN 0
                                   ELSE call.out.ret[Len(call.out.ret)].to, doc.len) = Null

\* One match more than the limit: null, where a truncated list would have
\* held limit matches.
C4_Witness ==
  /\ call.op = "matchAll"
  /\ valid(call.q)
  /\ call.a > 0
  /\ Len(AllMatches(call.q, doc)) = call.a + 1
  /\ call.out.ret = NullList

-----------------------------------------------------------------------------
(* C5: with an invalid query (an empty search string, or a regular         *)
(* expression that does not compile) each of nextMatch, prevMatch,         *)
(* matchAll and highlight returns no match or an empty result, constructs  *)
(* no cursor and does not throw.                                           *)
C5_InvalidQueryOperationsRefuse ==
  (call.op \in {"nextMatch", "prevMatch", "matchAll", "highlight"} /\ ~valid(call.q)) =>
    /\ ~call.out.threw
    /\ call.out.cursors = 0
    /\ call.op \in {"nextMatch", "prevMatch"} => call.out.ret = Null
    /\ call.op \in {"matchAll", "highlight"} => call.out.ret = <<>>

-----------------------------------------------------------------------------
(* C6: every caller that constructs a cursor checks valid first: with an   *)
(* invalid current query the commands findNext, findPrevious,              *)
(* selectMatches, replaceNext and replaceAll, the search highlighter and   *)
(* SearchQuery.getCursor construct no cursor, and the commands change      *)
(* neither the document nor the selection.                                 *)
SearchCommands == {"findNext", "findPrevious", "selectMatches", "replaceNext", "replaceAll"}

C6_CallersCheckValid ==
  (/\ call.op \in SearchCommands \cup {"searchHighlighter", "getCursor"}
   /\ call.q # NoField
   /\ ~valid(call.q)) =>
    /\ call.out.cursors = 0
    /\ ~call.out.threw
    /\ call.op \in SearchCommands => (doc = call.a /\ sel = call.b)

-----------------------------------------------------------------------------
(* C7: two queries compare equal if and only if all six fields agree:      *)
(* search, caseSensitive, literal, regexp, wholeWord and replace.          *)
SixFieldsAgree(q, other) ==
  /\ q.search = other.search
  /\ q.caseSensitive = other.caseSensitive
  /\ q.literal = other.literal
  /\ q.regexp = other.regexp
  /\ q.wholeWord = other.wholeWord
  /\ q.replace = other.replace

C7_EqIffSixFieldsAgree ==
  call.op = "eq" => (call.out.ret <=> SixFieldsAgree(call.q, call.a))

-----------------------------------------------------------------------------
(* C8: for a regexp query, getReplacement(match) is the template with each *)
(* $& replaced by the whole match, each $d (d a digit other than 0, less   *)
(* than the number of submatches) by submatch d, each $$ by a $, and every *)
(* other $-sequence left unchanged.  Stated for templates without a        *)
(* backslash, where nothing but the $-sequences is rewritten.              *)
RECURSIVE Expanded(_, _, _)
Expanded(template, k, match) ==
  IF k > Len(template) THEN <<>>
  ELSE IF template[k] = "$" /\ k < Len(template) /\ template[k + 1] = "&"
    THEN match[1] \o Expanded(template, k + 2, match)
  ELSE IF template[k] = "$" /\ k < Len(template) /\ template[k + 1] = "$"
    THEN <<"$">> \o Expanded(template, k + 2, match)
  ELSE IF /\ template[k] = "$" /\ k < Len(template)
          /\ template[k + 1] \in Digits \ {"0"}
          /\ digitValue(template[k + 1]) < Len(match)
    THEN match[digitValue(template[k + 1]) + 1] \o Expanded(template, k + 2, match)
  ELSE <<template[k]>> \o Expanded(template, k + 1, match)

C8_GetReplacementExpands ==
  (/\ call.op = "getReplacement"
   /\ \A k \in 1..Len(call.q.replace) : call.q.replace[k] # BS) =>
    call.out.ret = Expanded(call.q.replace, 1, call.a)

-----------------------------------------------------------------------------
(* C9: highlight(state, from, to, add) calls add for every match of the    *)
(* document, as matchAll finds them, that fully or partially overlaps      *)
(* [from, to); stated here for literal queries, for which the claim says   *)
(* none of these matches is missed.                                        *)
Overlaps(m, from, to) == m.from < to /\ m.to > from

Added(m) == \E i \in 1..Len(call.out.ret) : call.out.ret[i] = Range(m.from, m.to)

C9_HighlightAddsEveryOverlappingMatch ==
  (/\ call.op = "highlight"
   /\ valid(call.q)
   /\ ~call.q.regexp
   /\ ~call.q.wholeWord
   /\ call.a < call.b) =>
    \A i \in 1..Len(AllMatches(call.q, doc)) :
      Overlaps(AllMatches(call.q, doc)[i], call.a, call.b) => Added(AllMatches(call.q, doc)[i])

-----------------------------------------------------------------------------
(* C10: selectSelectionMatches, run with a single non-empty selection,     *)
(* selects every occurrence of the selected text in the document, also     *)
(* those that touch or overlap another occurrence; the originally selected *)
(* range is one of the selected ranges and is the main range.              *)
OccursExactly(d, text, p) ==
  p + Len(text) <= d.len /\ sliceString(d, p, p + Len(text)) = text

C10_SelectsEveryOccurrence ==
  (/\ call.op = "selectSelectionMatches"
   /\ Len(call.b.ranges) = 1
   /\ mainRange(call.b).from < mainRange(call.b).to) =>
    /\ call.out.ret = TRUE
    /\ \A p \in 0..call.a.len :
         OccursExactly(call.a, sliceDoc(call.a, mainRange(call.b).from, mainRange(call.b).to), p) =>
           \E i \in 1..Len(sel.ranges) :
             sel.ranges[i] = Range(p, p + mainRange(call.b).to - mainRange(call.b).from)
    /\ mainRange(sel) = mainRange(call.b)

-----------------------------------------------------------------------------
(* C11: with whole-word enabled a literal match [from, to) is accepted if  *)
(* and only if, at each of its two edges, the document characters before   *)
(* and after the edge are not both Word characters, a position outside the *)
(* document counting as a boundary; the verdict depends only on the        *)
(* document, whatever buffer window the cursor hands to the test.          *)
DocChar(d, i) == IF i >= 0 /\ i < d.len THEN charAt(d, i) ELSE NoChar

WordBoundary(d, p) ==
  categorizer(DocChar(d, p - 1)) # "Word" \/ categorizer(DocChar(d, p)) # "Word"

C11_WordTestDependsOnDocumentOnly ==
  call.op = "stringWordTest" =>
    (call.out.ret <=> (WordBoundary(doc, call.a.from) /\ WordBoundary(doc, call.a.to)))

-----------------------------------------------------------------------------
\* C12: on an initialized search state a transaction with setSearchQuery
\* effects makes the last of them the current query (getSearchQuery
\* returns it) and leaves the panel status alone unless it also toggles
\* the panel; a transaction with panel toggles and no setSearchQuery
\* changes only the panel status, to the last toggle's; a transaction
\* with neither leaves the search state as it was.
LastOf(effects, is) == SetMax({i \in 1..Len(effects) : effects[i].is = is})

Has(effects, is) == \E i \in 1..Len(effects) : effects[i].is = is

C12_EffectsUpdateSearchState ==
  (call.op = "dispatch" /\ call.a # NoField) =>
    /\ getSearchQuery(doc, sel, field)
         = IF Has(call.b, "setSearchQuery")
             THEN call.b[LastOf(call.b, "setSearchQuery")].query
             ELSE call.a.query
    /\ field.panel
         = IF Has(call.b, "togglePanel")
             THEN call.b[LastOf(call.b, "togglePanel")].open
             ELSE call.a.panel
    /\ (~Has(call.b, "setSearchQuery") /\ ~Has(call.b, "togglePanel")) => field = call.a

\* Two setSearchQuery effects with different queries in one transaction.
C12_Witness ==
  /\ call.op = "dispatch"
  /\ call.a # NoField
  /\ Len(call.b) = 2
  /\ call.b[1].is = "setSearchQuery"
  /\ call.b[2].is = "setSearchQuery"
  /\ call.b[1].query # call.b[2].query
  /\ field.query = call.b[2].query
  /\ field.panel = call.a.panel

-----------------------------------------------------------------------------
\* C13: findNext opens the search panel whenever it is not already open:
\* in the state findNext leaves, whatever the state it ran in (one with a
\* valid query that has a match included), searchPanelOpen is true.
C13_FindNextOpensPanel ==
  call.op = "findNext" => searchPanelOpen(field)

-----------------------------------------------------------------------------
\* C14: openSearchPanel returns true and leaves the panel open from any
\* state; closeSearchPanel returns false and changes nothing when the
\* panel is not open, and otherwise returns true and leaves the panel
\* closed and the query unchanged; so after any sequence of the two
\* commands searchPanelOpen tells which of them ran last.
OpenStep == Idle /\ call'.op = "openSearchPanel"

CloseStep == Idle /\ call'.op = "closeSearchPanel"

C14_PanelCommands ==
  [][/\ OpenStep => (call'.out.ret = TRUE /\ searchPanelOpen(field'))
     /\ (CloseStep /\ ~searchPanelOpen(field)) =>
          (call'.out.ret = FALSE /\ UNCHANGED <<doc, sel, readOnly, field, searchPanel>>)
     /\ (CloseStep /\ searchPanelOpen(field)) =>
          /\ call'.out.ret = TRUE
          /\ field' # NoField
          /\ ~searchPanelOpen(field')
          /\ field'.query = field.query
          /\ UNCHANGED <<doc, sel, readOnly>>]_<<doc, sel, readOnly, field, call.op>>

\* A panel that had been opened on a field with a closed panel has just
\* been closed.
C14_Witness ==
  /\ call.op = "closeSearchPanel"
  /\ call.out.ret = TRUE
  /\ field # NoField
  /\ ~field.panel
  /\ valid(field.query)

-----------------------------------------------------------------------------
\* C15: replaceNext, run on a valid query, changes the document only when
\* the main selection is exactly the first match nextMatch(state, from,
\* from) finds, and then by the one change that replaces that range with
\* getReplacement of that match; when the selection is not that match the
\* document stays and the selection moves to that match; when the state is
\* read-only or there is no match nothing is dispatched and the result is
\* false.
FirstMatch == nextMatch(call.q, call.a, mainRange(call.b).from, mainRange(call.b).from).ret

Replaced(first) ==
  applyChanges(call.a, <<Change(first.from, first.to, getReplacement(call.q, first))>>)

C15_ReplaceNextChangesSelectedMatchOnly ==
  (call.op = "replaceNext" /\ call.q # NoField /\ valid(call.q)) =>
    IF readOnly \/ FirstMatch = Null
      THEN ~call.out.threw /\ call.out.ret = FALSE /\ doc = call.a /\ sel = call.b
    ELSE IF FirstMatch.from = mainRange(call.b).from /\ FirstMatch.to = mainRange(call.b).to
      THEN ~call.out.threw /\ call.out.ret = TRUE /\ doc = Replaced(FirstMatch)
    ELSE /\ ~call.out.threw
         /\ call.out.ret = TRUE
         /\ doc = call.a
         /\ sel = single(FirstMatch.from, FirstMatch.to)

-----------------------------------------------------------------------------
\* C18: when replaceNext replaces the selected match and a further match
\* exists, the selection it dispatches covers exactly that further match
\* in the document after the change: where the further match was if it
\* lies before the replaced range, moved by the difference between the
\* replaced length and the replacement's length if it lies after it.
FurtherMatch == nextMatch(call.q, call.a, FirstMatch.from, FirstMatch.to).ret

Shift(first) == (first.to - first.from) - Len(getReplacement(call.q, first))

C18_SelectionCoversFurtherMatch ==
  (/\ call.op = "replaceNext"
   /\ call.q # NoField
   /\ valid(call.q)
   /\ ~readOnly
   /\ FirstMatch # Null
   /\ FirstMatch.from = mainRange(call.b).from
   /\ FirstMatch.to = mainRange(call.b).to
   /\ FurtherMatch # Null
   /\ (FurtherMatch.to <= FirstMatch.from \/ FurtherMatch.from >= FirstMatch.to)) =>
    /\ ~call.out.threw
    /\ sel = IF FurtherMatch.to <= FirstMatch.from
               THEN single(FurtherMatch.from, FurtherMatch.to)
               ELSE single(FurtherMatch.from - Shift(FirstMatch), FurtherMatch.to - Shift(FirstMatch))

-----------------------------------------------------------------------------
\* C16: the backward search of a region [rangeStart, upper) scans forward
\* over a span before upper that doubles with each failed scan: the k-th
\* scan starts at max(rangeStart, upper - 2^(k-1) * ChunkSize) and ends at
\* upper, so a match found in the region before the cursor is found by the
\* first scan of that series that has a match to return (or that starts
\* at rangeStart), after that many cursors.
LastInScan(q, d, start, to) ==
  IF q.regexp THEN RX_last(regexpCursor(q, d, start, to), Null)
  ELSE SC_lastOverlapping(stringCursor(q, d, start, to), Null)

\* A scan ends the search if it starts at rangeStart or has a match to
\* return (for a regexp one that begins more than 10 after the start).
Ends(q, d, from, start, to) ==
  \/ start = from
  \/ /\ LastInScan(q, d, start, to) # Null
     /\ (~q.regexp \/ LastInScan(q, d, start, to).from > start + 10)

RECURSIVE DoublingScans(_, _, _, _, _)
DoublingScans(q, d, from, to, k) ==
  IF Ends(q, d, from, Max(from, to - (2 ^ (k - 1)) * ChunkSize), to) THEN k
  ELSE DoublingScans(q, d, from, to, k + 1)

C16_BackwardScansDouble ==
  (/\ call.op = "prevMatch"
   /\ ~call.out.threw
   /\ call.out.ret # Null
   /\ call.out.ret.to <= call.a) =>
    call.out.cursors = DoublingScans(call.q, doc, 0, call.a, 1)

-----------------------------------------------------------------------------
\* C17: the backward search of a regexp query over a region [rangeStart,
\* upper) returns the last match of a scan [start, upper) only if start is
\* rangeStart or the match begins more than 10 after start; otherwise it
\* scans again from further back; the scan from rangeStart returns
\* whatever it found last, and the result is null only when that scan
\* finds nothing.
ScanStart(from, to, size) == Max(from, to - size * ChunkSize)

RECURSIVE Settling(_, _, _, _, _)
Settling(q, d, from, to, size) ==
  IF Ends(q, d, from, ScanStart(from, to, size), to) THEN size
  ELSE Settling(q, d, from, to, size + 1)

BackwardResult(q, d, from, to) ==
  LastInScan(q, d, ScanStart(from, to, Settling(q, d, from, to, 1)), to)

C17_RegExpBackwardAcceptance ==
  (call.op = "prevMatch" /\ call.q.regexp /\ ~call.out.threw) =>
    /\ call.out.ret = IF BackwardResult(call.q, doc, 0, call.a) # Null
                        THEN BackwardResult(call.q, doc, 0, call.a)
                        ELSE BackwardResult(call.q, doc, call.b, doc.len)
    /\ call.out.ret = Null <=>
         (/\ LastInScan(call.q, doc, 0, call.a) = Null
          /\ LastInScan(call.q, doc, call.b, doc.len) = Null)

\* The first scan starts after rangeStart and its last match begins
\* within 10 of the start: the search went on and returned the match of a
\* later scan.
C17_Witness ==
  /\ call.op = "prevMatch"
  /\ call.q.regexp
  /\ ~call.out.threw
  /\ ScanStart(0, call.a, 1) > 0
  /\ LastInScan(call.q, doc, ScanStart(0, call.a, 1), call.a) # Null
  /\ LastInScan(call.q, doc, ScanStart(0, call.a, 1), call.a).from <= ScanStart(0, call.a, 1) + 10
  /\ call.out.cursors = 2
  /\ call.out.ret # LastInScan(call.q, doc, ScanStart(0, call.a, 1), call.a)

-----------------------------------------------------------------------------
\* C19: with the document and a valid query fixed and at least one match,
\* invoking findNext again and again from any selection eventually selects
\* every match that matchAll returns, and does so again and again, going
\* from each match to the one after it in document order and from the
\* last to the first; it does not stay on one match forever when there
\* are several, regexps that match the empty string included.
Selected(from, to) == sel = single(from, to)

\* The selection findNext ran on was the i-th match: it is now the next.
InOrder ==
  \A i \in 1..Len(AllMatches(field.query, doc)) :
    (/\ call.op = "findNext"
     /\ call.b = single(AllMatches(field.query, doc)[i].from, AllMatches(field.query, doc)[i].to)) =>
      LET next == AllMatches(field.query, doc)[(i % Len(AllMatches(field.query, doc))) + 1]
      IN sel = single(next.from, next.to)

\* With InOrder, selecting the first and the last match again and again is
\* selecting every match again and again.
AtFirstMatch ==
  Selected(AllMatches(field.query, doc)[1].from, AllMatches(field.query, doc)[1].to)

AtLastMatch ==
  Selected(AllMatches(field.query, doc)[Len(AllMatches(field.query, doc))].from,
           AllMatches(field.query, doc)[Len(AllMatches(field.query, doc))].to)

C19_FindNextCyclesThroughMatches ==
  /\ []InOrder
  /\ []<>AtFirstMatch
  /\ []<>AtLastMatch

-----------------------------------------------------------------------------
\* C20: while a search panel exists, after every transaction the query the
\* panel holds is eq (SearchQuery.eq) to the current query of the search
\* state, whatever the interleaving of panel commits and of transactions
\* with setSearchQuery effects from elsewhere, several in one transaction
\* included; and a panel commit dispatches a setSearchQuery effect only
\* when the query built from the inputs is not eq to the panel's query.
PanelAgrees ==
  searchPanel # NoPanel => (field # NoField /\ field.panel /\ eq(searchPanel.query, field.query))

CommitDispatches ==
  call.op = "commit" =>
    /\ call.b # <<>> => (~eq(call.q, call.a.query) /\ call.b = <<SetQueryEffect(call.q)>>)
    /\ call.b = <<>> => searchPanel = call.a

C20_PanelQueryFollowsState == PanelAgrees /\ CommitDispatches

\* A transaction from elsewhere with two setSearchQuery effects that are
\* not eq to each other nor to the panel's query has reached the panel.
C20_Witness ==
  /\ call.op = "dispatch"
  /\ searchPanel # NoPanel
  /\ call.a # NoField
  /\ call.a.panel
  /\ Len(call.b) = 2
  /\ call.b[1].is = "setSearchQuery"
  /\ call.b[2].is = "setSearchQuery"
  /\ ~eq(call.b[1].query, call.b[2].query)
  /\ ~eq(call.b[1].query, call.a.query)
  /\ searchPanel.query = call.b[2].query

====
